---- MODULE Spec2Model ----
(***************************************************************************)
(* Model of rcute_cozmars/speaker.py: the Speaker's play session (lock,    *)
(* stream descriptor, output channel, pacing loop) and the pure block      *)
(* generators it is built from (raw_gen, np_gen, repeat_gen,               *)
(* file_sr_bs_gen).                                                        *)
(*                                                                         *)
(* Conventions.  Durations are integers in milliseconds (block_duration    *)
(* .5 s is 500).  A byte is an integer 0..255, a bytes object a sequence   *)
(* of bytes.  A float sample is held in thousandths (0.5 is 500).          *)
(***************************************************************************)
EXTENDS Integers, Sequences, FiniteSets, TLC

\* ------------------------------------------------------------------ bounds
\* Number of play calls on the one Speaker in the ordering specification.
NCalls == 3
\* Number of play calls on the one Speaker in the session specification.
NSession == 2
\* Longest byte buffer / block sequence drawn for the pure generators.
MaxLen == 4
\* Largest block size (samples) drawn for the chunker.
MaxBs == 3
\* Largest repeat count drawn.
MaxRepeat == 2
\* Largest preload drawn for the pacing specification.
MaxPreload == 2
\* Largest repeat count drawn for repeat_gen alone.
MaxTimes == 3
\* Largest native sample rate drawn for the file decoder alone.
MaxRate == 4
\* say / beep / play requests made on one Speaker
NReq == 2

Calls == 1..NCalls

\* ------------------------------------------------------------- arithmetic
Min(a, b) == IF a <= b THEN a ELSE b

\* Python int(x) and numpy astype(int) on a quotient n/d, d > 0: truncation
\* toward zero.
TruncDiv(n, d) == IF n >= 0 THEN n \div d ELSE -((-n) \div d)

\* range(start, stop, step) for step > 0, as the list of its values.
RECURSIVE Range(_, _, _)
Range(start, stop, step) ==
    IF start >= stop THEN <<>>
    ELSE <<start>> \o Range(start + step, stop, step)

\* b'\x00' * n
RECURSIVE Zeros(_)
Zeros(n) == IF n <= 0 THEN <<>> ELSE <<0>> \o Zeros(n - 1)

\* Concatenation of a sequence of sequences.
RECURSIVE Flatten(_)
Flatten(ss) == IF ss = <<>> THEN <<>> ELSE Head(ss) \o Flatten(Tail(ss))

\* --------------------------------------------------------------- dtypes
IntTypes   == {"int8", "int16"}
FloatTypes == {"float32"}

\* util.sample_width(dt): bytes per sample of a dtype name.
sample_width(dt) ==
    CASE dt = "int8"    -> 1
      [] dt = "int16"   -> 2
      [] dt = "float32" -> 4

\* np.iinfo(dt).max
iinfo_max(dt) ==
    CASE dt = "int8"  -> 127
      [] dt = "int16" -> 32767

\* One sample's little-endian bytes (ndarray.tobytes for one element): an
\* integer in two's complement; a float32 is encoded as the 4-byte two's
\* complement of its thousandths (stand-in for the IEEE-754 pattern).
RECURSIVE LittleEndian(_, _)
LittleEndian(u, w) ==
    IF w = 0 THEN <<>> ELSE <<u % 256>> \o LittleEndian(u \div 256, w - 1)

\* (u % 256 is never negative and u \div 256 rounds down, so a negative
\* sample comes out in two's complement.)
SampleBytes(v, dt) == LittleEndian(v, sample_width(dt))

\* ndarray.tobytes() of a 1-D array of dtype dt.
tobytes(samples, dt) ==
    Flatten([k \in 1..Len(samples) |-> SampleBytes(samples[k], dt)])

\* ------------------------------------------------------------- raw_gen
\* raw_gen without lines 175-176: the last block is left short.
raw_gen_nopad(data, dt, bs) ==
    LET w  == bs * sample_width(dt)
        is == Range(0, Len(data), w)
    IN [k \in 1..Len(is) |-> SubSeq(data, is[k] + 1, Min(is[k] + w, Len(data)))]

\* raw_gen(data, dt, bs): the list of blocks the generator yields.
raw_gen(data, dt, bs) ==
    LET w  == bs * sample_width(dt)
        is == Range(0, Len(data), w)
        blk(i) == LET b == SubSeq(data, i + 1, Min(i + w, Len(data)))
                  IN IF Len(b) < w THEN b \o Zeros(w - Len(b)) ELSE b
    IN [k \in 1..Len(is) |-> blk(is[k])]

\* -------------------------------------------------------------- np_gen
\* A numpy array is [dtype, ndim, data]: data is a sequence of samples
\* (ndim = 1) or of rows of per-channel samples (ndim = 2).
IsFloat(t) == t \in FloatTypes
IsInt(t)   == t \in IntTypes

\* Two's-complement wrap of x into the range of the integer dtype dt.
Signed(x, dt) ==
    LET m == 2 ^ (8 * sample_width(dt))
        u == ((x % m) + m) % m
    IN IF u >= m \div 2 THEN u - m ELSE u

\* The cast numpy applies to one element when a reduction is given dtype=dt.
CastElem(v, from, dt) ==
    IF IsFloat(from) /\ IsInt(dt) THEN Signed(TruncDiv(v, 1000), dt)
    ELSE IF IsInt(from) /\ IsFloat(dt) THEN v * 1000
    ELSE v

RECURSIVE SumSeq(_)
SumSeq(s) == IF s = <<>> THEN 0 ELSE Head(s) + SumSeq(Tail(s))

\* row.mean(dtype=dt): the elements are cast to dt, summed in dt and the
\* quotient is cast back to dt.
MeanRow(row, from, dt) ==
    LET s == SumSeq([c \in 1..Len(row) |-> CastElem(row[c], from, dt)])
    IN IF IsInt(dt) THEN Signed(TruncDiv(Signed(s, dt), Len(row)), dt)
       ELSE TruncDiv(s, Len(row))

\* data.mean(axis=1, dtype=dt)
mean_axis1(arr, dt) ==
    [dtype |-> dt, ndim |-> 1,
     data  |-> [k \in 1..Len(arr.data) |-> MeanRow(arr.data[k], arr.dtype, dt)]]

\* np_gen(data, dt, bs): down-mix, family conversion, then raw_gen over the
\* array's bytes.
np_gen(arr, dt, bs) ==
    LET a1 == IF arr.ndim > 1 THEN mean_axis1(arr, dt) ELSE arr
        a2 == IF IsFloat(a1.dtype) /\ IsInt(dt)
              THEN [a1 EXCEPT !.dtype = dt,
                       !.data = [k \in 1..Len(a1.data) |->
                           Signed(TruncDiv(a1.data[k] * iinfo_max(dt), 1000), dt)]]
              ELSE IF IsInt(a1.dtype) /\ IsFloat(dt)
              THEN [a1 EXCEPT !.dtype = dt,
                       !.data = [k \in 1..Len(a1.data) |->
                           TruncDiv(a1.data[k] * 1000, iinfo_max(a1.dtype))]]
              ELSE a1
    IN raw_gen(tobytes(a2.data, a2.dtype), dt, bs)

\* ----------------------------------------------------------------- tones
\* A phrase is a sequence of elements; an element is a pitch, given by the
\* frequency Tone(e).frequency resolves it to (Hz), or a nested phrase.
Leaf(f)   == [leaf |-> TRUE,  freq |-> f, sub |-> <<>>]
Node(sub) == [leaf |-> FALSE, freq |-> 0, sub |-> sub]

Max(a, b) == IF a >= b THEN a ELSE b

\* max_freq that looks at the top-level pitches only.
RECURSIVE max_freq_flat(_)
max_freq_flat(tones) ==
    IF tones = <<>> THEN 0
    ELSE LET e == tones[Len(tones)]
         IN Max(max_freq_flat(SubSeq(tones, 1, Len(tones) - 1)),
                IF e.leaf THEN e.freq ELSE 0)

\* max_freq(tones): functools.reduce from 0, left to right.
RECURSIVE max_freq(_)
max_freq(tones) ==
    IF tones = <<>> THEN 0
    ELSE LET e == tones[Len(tones)]
         IN Max(max_freq(SubSeq(tones, 1, Len(tones) - 1)),
                IF e.leaf THEN e.freq ELSE max_freq(e.sub))

\* The sample rate beep renders at (lines 115-121).
beep_sr(tones) ==
    LET sr == max_freq(tones)
    IN IF sr > 11025 THEN 44100
       ELSE IF sr > 800 THEN 22050
       ELSE 16000

\* An AudioSegment is the sequence of its parts, each a stretch of tone, of
\* tone fading into silence, or of silence, with its duration in
\* microseconds; duty_cycle is in hundredths.
Part(kind, freq, us) == [kind |-> kind, freq |-> freq, us |-> us]

RECURSIVE SegLen(_)
SegLen(seg) == IF seg = <<>> THEN 0 ELSE Head(seg).us + SegLen(Tail(seg))

Rendered(parts) == [exc |-> "none", parts |-> parts]

Some(p) == IF p.us > 0 THEN <<p>> ELSE <<>>

\* tone.append(silence, crossfade=c) of pydub: plain concatenation when c is
\* 0; otherwise ValueError when c is longer than either segment, else the
\* last c of the tone is overlaid with the first c of the silence, so the
\* result lasts len(tone) + len(silence) - c.
append(tone, silence, crossfade) ==
    IF crossfade = 0 THEN Rendered(Some(tone) \o Some(silence))
    ELSE IF crossfade > tone.us \/ crossfade > silence.us
    THEN [exc |-> "ValueError", parts |-> <<>>]
    ELSE Rendered(Some([tone EXCEPT !.us = @ - crossfade])
                  \o <<Part("fade", tone.freq, crossfade)>>
                  \o Some([silence EXCEPT !.us = @ - crossfade]))

\* tone2audio(tones, base_beat_ms, duty_cycle, sr): functools.reduce from
\* AudioSegment.empty(), left to right; an exception of a leaf ends it.
RECURSIVE tone2audio(_, _, _, _)
tone2audio(tones, base_beat, duty_cycle, sr) ==
    LET duty  == (base_beat * duty_cycle) \div 100
        empty == base_beat - duty
    IN IF tones = <<>> THEN Rendered(<<>>)
       ELSE LET r == tone2audio(SubSeq(tones, 1, Len(tones) - 1),
                                base_beat, duty_cycle, sr)
                e == tones[Len(tones)]
                x == IF e.leaf
                     THEN append(Part("tone", e.freq, duty),
                                 Part("silence", 0, empty), empty)
                     ELSE tone2audio(e.sub, base_beat \div 2, duty_cycle, sr)
            IN IF r.exc # "none" THEN r
               ELSE IF x.exc # "none" THEN x
               ELSE Rendered(r.parts \o x.parts)

\* ----------------------------------------------------------- repeat_gen
\* A lazy block source: the blocks it yields and failAt = k > 0 when its
\* k-th next() raises instead (0: it never raises).
Source(items, failAt) == [items |-> items, failAt |-> failAt]

\* next() on the upstream iterator after `up` successful nexts.
upstream_next(src, up) ==
    IF src.failAt = up + 1 THEN [kind |-> "raise", item |-> <<>>]
    ELSE IF up < Len(src.items) THEN [kind |-> "item", item |-> src.items[up + 1]]
    ELSE [kind |-> "stop", item |-> <<>>]

\* State of the generator repeat_gen(gen, repeat): up = blocks pulled from
\* upstream, buf = the spine itertools.tee keeps for the views that lag,
\* view = the tee view being drained, pos = its cursor.
GenInit == [up |-> 0, buf |-> <<>>, view |-> 1, pos |-> 0]

\* repeat_next over views that share no buffer (the generator itself is
\* iterated `repeat` times): the later views find it exhausted.
RECURSIVE repeat_next_notee(_, _, _)
repeat_next_notee(src, repeat, g) ==
    LET u == upstream_next(src, g.up)
    IN IF g.view > repeat
       THEN [g |-> g, kind |-> "stop", item |-> <<>>]
       ELSE IF u.kind = "item"
       THEN [g |-> [g EXCEPT !.up = @ + 1], kind |-> "item", item |-> u.item]
       ELSE IF u.kind = "raise"
       THEN [g |-> g, kind |-> "raise", item |-> <<>>]
       ELSE repeat_next_notee(src, repeat, [g EXCEPT !.view = @ + 1])

\* repeat_next over a list built first (list(gen) * repeat): the first
\* next() drains the upstream into the buffer.
RECURSIVE repeat_next_eager(_, _, _)
repeat_next_eager(src, repeat, g) ==
    IF g.up = 0 /\ src.items # <<>> /\ src.failAt = 0
    THEN repeat_next_eager(src, repeat,
             [g EXCEPT !.up = Len(src.items), !.buf = src.items])
    ELSE IF g.view > repeat \/ src.items = <<>>
    THEN [g |-> g, kind |-> "stop", item |-> <<>>]
    ELSE IF src.failAt # 0
    THEN [g |-> g, kind |-> "raise", item |-> <<>>]
    ELSE IF g.pos < Len(g.buf)
    THEN [g |-> [g EXCEPT !.pos = @ + 1], kind |-> "item",
          item |-> g.buf[g.pos + 1]]
    ELSE repeat_next_eager(src, repeat, [g EXCEPT !.view = @ + 1, !.pos = 0])

\* next() on repeat_gen(gen, repeat) in state g: the new state and what it
\* yields ("item"), or StopIteration ("stop"), or the upstream error.
RECURSIVE repeat_next(_, _, _)
repeat_next(src, repeat, g) ==
    LET u == upstream_next(src, g.up)
    IN IF repeat = 1
       THEN [g |-> IF u.kind = "item" THEN [g EXCEPT !.up = @ + 1] ELSE g,
             kind |-> u.kind, item |-> u.item]
       ELSE IF g.view > repeat
       THEN [g |-> g, kind |-> "stop", item |-> <<>>]
       ELSE IF g.pos < Len(g.buf)
       THEN [g |-> [g EXCEPT !.pos = @ + 1], kind |-> "item",
             item |-> g.buf[g.pos + 1]]
       ELSE IF u.kind = "item"
       THEN [g |-> [g EXCEPT !.up = @ + 1, !.buf = Append(@, u.item),
                             !.pos = @ + 1],
             kind |-> "item", item |-> u.item]
       ELSE IF u.kind = "raise"
       THEN [g |-> g, kind |-> "raise", item |-> <<>>]
       ELSE repeat_next(src, repeat, [g EXCEPT !.view = @ + 1, !.pos = 0])

\* list(repeat_gen(seq, repeat)) for a source that never raises.
RECURSIVE Drain(_, _, _)
Drain(src, repeat, g) ==
    LET r == repeat_next(src, repeat, g)
    IN IF r.kind = "item" THEN <<r.item>> \o Drain(src, repeat, r.g) ELSE <<>>

repeat_gen(seq, repeat) == Drain(Source(seq, 0), repeat, GenInit)

\* -------------------------------------------------------- file_sr_bs_gen
\* An audio file: native sample rate, its frames as rows of per-channel
\* integer samples (what soundfile reads with dtype=dt), whether soundfile
\* (sfOK) and librosa (rosaOK) can decode its container.
\* src is [kind, file] with kind "path", "url" or "handle".

\* file.blocks(dtype=dt, blocksize=bs, fill_value=0): consecutive windows of
\* bs frames, the last one filled with zero frames.
sf_blocks(file, bs) ==
    LET ch == IF file.frames = <<>> THEN 1 ELSE Len(file.frames[1])
        zero == [c \in 1..ch |-> 0]
        is == Range(0, Len(file.frames), bs)
        win(i) == LET b == SubSeq(file.frames, i + 1, Min(i + bs, Len(file.frames)))
                  IN b \o [k \in 1..(bs - Len(b)) |-> zero]
    IN [k \in 1..Len(is) |-> win(is[k])]

\* The lambda of line 148 on one block b of dtype dt.
block_bytes(b, dt) ==
    IF b = <<>> \/ Len(b[1]) = 1
    THEN tobytes([k \in 1..Len(b) |-> b[k][1]], dt)
    ELSE tobytes(mean_axis1([dtype |-> dt, ndim |-> 2, data |-> b], dt).data, dt)

\* librosa.load(src, sr=target, mono=True): float mono samples (thousandths)
\* at rate target, or at the native rate when target is 0 (None).  The
\* resampler keeps the frame nearest below each output instant.
librosa_load(file, dt, target) ==
    LET mono == [k \in 1..Len(file.frames) |->
                   TruncDiv(SumSeq(file.frames[k]) * 1000,
                            iinfo_max(dt) * Len(file.frames[k]))]
        rate == IF target = 0 THEN file.rate ELSE target
        n    == (Len(mono) * rate + file.rate - 1) \div file.rate
    IN [sr |-> rate,
        y  |-> [dtype |-> "float32", ndim |-> 1,
                data |-> [k \in 1..n |-> mono[((k - 1) * file.rate) \div rate + 1]]]]

\* file_sr_bs_gen without the assert of line 146.
file_sr_bs_gen_noassert(src, sr, dt, block_duration) ==
    LET file == src.file
        fail(e, t) == [exc |-> e, sr |-> 0, bs |-> 0, gen |-> <<>>, tried |-> t]
    IN IF src.kind = "handle"
       THEN fail("AttributeError", <<>>)
       ELSE IF file.sfOK
       THEN LET bs == TruncDiv(block_duration * file.rate, 1000)
                bl == sf_blocks(file, bs)
            IN [exc |-> "none", sr |-> file.rate, bs |-> bs,
                gen |-> [k \in 1..Len(bl) |-> block_bytes(bl[k], dt)],
                tried |-> <<"soundfile">>]
       ELSE IF ~file.rosaOK
       THEN fail("DecodeError", <<"soundfile", "librosa">>)
       ELSE LET ld == librosa_load(file, dt, IF file.rate < sr THEN 0 ELSE sr)
                bs == TruncDiv(ld.sr * block_duration, 1000)
            IN [exc |-> "none", sr |-> ld.sr, bs |-> bs,
                gen |-> np_gen(ld.y, dt, bs),
                tried |-> <<"soundfile", "librosa">>]

\* file_sr_bs_gen(src, sr, dt, block_duration): exc is the exception that
\* leaves the function ("none": it returns sr, bs and the block list gen);
\* tried lists the decoders attempted, in order.
file_sr_bs_gen(src, sr, dt, block_duration) ==
    LET file == src.file
        fail(e, t) == [exc |-> e, sr |-> 0, bs |-> 0, gen |-> <<>>, tried |-> t]
    IN IF src.kind = "handle"
       THEN fail("AttributeError", <<>>)
       ELSE IF file.sfOK /\ file.rate <= sr
       THEN LET bs == TruncDiv(block_duration * file.rate, 1000)
                bl == sf_blocks(file, bs)
            IN [exc |-> "none", sr |-> file.rate, bs |-> bs,
                gen |-> [k \in 1..Len(bl) |-> block_bytes(bl[k], dt)],
                tried |-> <<"soundfile">>]
       ELSE IF ~file.rosaOK
       THEN fail("DecodeError", <<"soundfile", "librosa">>)
       ELSE LET ld == librosa_load(file, dt, IF file.rate < sr THEN 0 ELSE sr)
                bs == TruncDiv(ld.sr * block_duration, 1000)
            IN [exc |-> "none", sr |-> ld.sr, bs |-> bs,
                gen |-> np_gen(ld.y, dt, bs),
                tried |-> <<"soundfile", "librosa">>]

\* ================================================================ state
VARIABLES
    lock,     \* self._lock: the call holding it, 0 when unlocked
    waiters,  \* self._lock's FIFO of calls suspended in acquire()
    t_sr,     \* self._t_sr
    t_dt,     \* self._t_dt
    t_bs,     \* self._t_bs
    chan,     \* the output channel: open?, the call that opened it, the
              \* (sample rate, dtype, block size) _get_rpc() passed at open
    log,      \* what the output channel has seen: open / push / close
    pc,       \* each play call's position
    arg,      \* each play call's arguments (src, repeat, preload, **kw)
    loc,      \* each play call's locals sr, dt, bs and normalized src
    gen,      \* each play call's repeat_gen(src, repeat) generator state
    count,    \* each play call's local `count` (milliseconds)
    raw,      \* each play call's local `raw`
    waits,    \* per call, the wait that followed each push (0: none)
    result,   \* how each play call ended
    order,    \* the calls in the order play() was invoked
    arrived,  \* the calls in the order they reached `async with self._lock`
    fn,       \* the last application of a pure generator (input, output)
    esng,     \* self._esng: the shared synthesizer and its settings
    req,      \* each say / beep / play request's arguments
    rpc,      \* each request's position
    used,     \* per say request, the settings synth_wav ran with
    callof,   \* per request, the play call it made (0: none yet)
    rres      \* how a request ended that never reached play

front == <<esng, req, rpc, used, callof, rres>>

vars == <<lock, waiters, t_sr, t_dt, t_bs, chan, log, pc, arg, loc, gen,
          count, raw, waits, result, order, arrived, fn, front>>

session == <<lock, waiters, t_sr, t_dt, t_bs, chan, log, pc, arg, loc, gen,
             count, raw, waits, result, order, arrived>>

\* ------------------------------------------------------------- sources
NoFile == [rate |-> 0, frames |-> <<>>, sfOK |-> FALSE, rosaOK |-> FALSE]
NoArr  == [dtype |-> "int8", ndim |-> 1, data |-> <<>>]

Src(kind, file, arr, data, items, failAt) ==
    [kind |-> kind, file |-> file, arr |-> arr, data |-> data,
     items |-> items, failAt |-> failAt]

FileSrc(kind, file)     == Src(kind, file, NoArr, <<>>, <<>>, 0)
ArraySrc(arr)           == Src("ndarray", NoFile, arr, <<>>, <<>>, 0)
BytesSrc(data)          == Src("bytes", NoFile, NoArr, data, <<>>, 0)
IterSrc(items, failAt)  == Src("iterable", NoFile, NoArr, <<>>, items, failAt)
OtherSrc                == Src("other", NoFile, NoArr, <<>>, <<>>, 0)

FileKinds == {"path", "url", "handle"}

NoArg == [src |-> OtherSrc, repeat |-> 1, preload |-> 0, sr |-> 0,
          dt |-> "int8", bd |-> 0]
NoLoc == [sr |-> 0, dt |-> "int8", bs |-> 0, src |-> Source(<<>>, 0)]
Closed == [open |-> FALSE, by |-> 0, sr |-> 0, dt |-> "int8", bs |-> 0]

SessionInit ==
    /\ lock = 0
    /\ waiters = <<>>
    /\ t_sr = 0
    /\ t_dt = "int8"
    /\ t_bs = 0
    /\ chan = Closed
    /\ log = <<>>
    /\ pc = [i \in Calls |-> "idle"]
    /\ arg = [i \in Calls |-> NoArg]
    /\ loc = [i \in Calls |-> NoLoc]
    /\ gen = [i \in Calls |-> GenInit]
    /\ count = [i \in Calls |-> 0]
    /\ raw = [i \in Calls |-> <<>>]
    /\ waits = [i \in Calls |-> <<>>]
    /\ result = [i \in Calls |-> "none"]
    /\ order = <<>>
    /\ arrived = <<>>

\* The requests of a run, numbered in the order they are made.
Reqs == 1..NReq

NoReq == [op |-> "none"]
NoSettings == [voice |-> "", pitch |-> -1]

FrontInit ==
    /\ esng = [made |-> FALSE, voice |-> "", pitch |-> -1]
    /\ req = [r \in Reqs |-> NoReq]
    /\ rpc = [r \in Reqs |-> "idle"]
    /\ used = [r \in Reqs |-> NoSettings]
    /\ callof = [r \in Reqs |-> 0]
    /\ rres = [r \in Reqs |-> "none"]

Init == SessionInit /\ fn = [op |-> "none"] /\ FrontInit

\* ----------------------------------------------------------- Speaker.play
\* self._get_rpc(): the channel is opened with the descriptor as it stands.
get_rpc(i) == [open |-> TRUE, by |-> i, sr |-> t_sr, dt |-> t_dt, bs |-> t_bs]

\* InputStreamComponent.__aenter__: the output channel is opened with what
\* _get_rpc() passes.
aenter(i) ==
    /\ chan' = get_rpc(i)
    /\ log' = Append(log, <<"open", i, <<>>>>)

\* InputStreamComponent.__aexit__: the output channel is closed.
aexit(i) ==
    /\ chan' = Closed
    /\ log' = Append(log, <<"close", i, <<>>>>)

\* Arrive with no mutual exclusion: the lock is taken even while it is held.
Arrive_nolock(i, d) ==
    /\ loc' = [loc EXCEPT ![i] = d]
    /\ arrived' = Append(arrived, i)
    /\ lock' = i
    /\ t_sr' = d.sr
    /\ t_dt' = d.dt
    /\ t_bs' = d.bs
    /\ pc' = [pc EXCEPT ![i] = "enter"]
    /\ UNCHANGED waiters

\* Arrive with lines 51-53 moved before the lock statement.
Arrive_early(i, d) ==
    /\ loc' = [loc EXCEPT ![i] = d]
    /\ arrived' = Append(arrived, i)
    /\ t_sr' = d.sr
    /\ t_dt' = d.dt
    /\ t_bs' = d.bs
    /\ IF lock = 0 /\ waiters = <<>>
       THEN /\ lock' = i
            /\ pc' = [pc EXCEPT ![i] = "enter"]
            /\ UNCHANGED waiters
       ELSE /\ waiters' = Append(waiters, i)
            /\ pc' = [pc EXCEPT ![i] = "lock"]
            /\ UNCHANGED lock

\* Arrive with an unfair lock: a free lock is taken past the woken waiter.
Arrive_barge(i, d) ==
    /\ loc' = [loc EXCEPT ![i] = d]
    /\ arrived' = Append(arrived, i)
    /\ IF lock = 0
       THEN /\ lock' = i
            /\ t_sr' = d.sr
            /\ t_dt' = d.dt
            /\ t_bs' = d.bs
            /\ pc' = [pc EXCEPT ![i] = "enter"]
            /\ UNCHANGED waiters
       ELSE /\ waiters' = Append(waiters, i)
            /\ pc' = [pc EXCEPT ![i] = "lock"]
            /\ UNCHANGED <<lock, t_sr, t_dt, t_bs>>

\* Arrive with a lost wake-up: a call that finds the lock taken suspends
\* without joining the waiters.
Arrive_unqueued(i, d) ==
    /\ loc' = [loc EXCEPT ![i] = d]
    /\ arrived' = Append(arrived, i)
    /\ IF lock = 0 /\ waiters = <<>>
       THEN /\ lock' = i
            /\ t_sr' = d.sr
            /\ t_dt' = d.dt
            /\ t_bs' = d.bs
            /\ pc' = [pc EXCEPT ![i] = "enter"]
            /\ UNCHANGED waiters
       ELSE /\ pc' = [pc EXCEPT ![i] = "lock"]
            /\ UNCHANGED <<waiters, lock, t_sr, t_dt, t_bs>>

\* `async with self._lock:` reached by call i with locals d, and on entry
\* lines 51-53.  Lock.acquire() takes a free lock with no waiter at once,
\* without suspending; otherwise the call joins the FIFO of waiters.
\* (v: the locals, evaluated once.)
Arrive(i, d) ==
    \E v \in {d} :
        /\ loc' = [loc EXCEPT ![i] = v]
        /\ arrived' = Append(arrived, i)
        /\ IF lock = 0 /\ waiters = <<>>
           THEN /\ lock' = i
                /\ t_sr' = v.sr
                /\ t_dt' = v.dt
                /\ t_bs' = v.bs
                /\ pc' = [pc EXCEPT ![i] = "enter"]
                /\ UNCHANGED waiters
           ELSE /\ waiters' = Append(waiters, i)
                /\ pc' = [pc EXCEPT ![i] = "lock"]
                /\ UNCHANGED <<lock, t_sr, t_dt, t_bs>>

\* The call ends before `async with self._lock:` with exception e.
Raise(i, e) ==
    /\ pc' = [pc EXCEPT ![i] = "done"]
    /\ result' = [result EXCEPT ![i] = e]

\* Call with the else branch of line 62 missing: a source of no known kind
\* is streamed as an empty sequence.
Call_noelse(i, a) ==
    LET bs == TruncDiv(a.bd * a.sr, 1000)
        d(items, failAt) ==
            [sr |-> a.sr, dt |-> a.dt, bs |-> bs, src |-> Source(items, failAt)]
    IN /\ pc[i] = "idle"
       /\ i = Len(order) + 1
       /\ arg' = [arg EXCEPT ![i] = a]
       /\ order' = Append(order, i)
       /\ IF a.src.kind \in FileKinds
          THEN /\ pc' = [pc EXCEPT ![i] = "decode"]
               /\ loc' = [loc EXCEPT ![i] = d(<<>>, 0)]
               /\ UNCHANGED <<lock, waiters, t_sr, t_dt, t_bs, arrived>>
          ELSE IF a.src.kind = "ndarray"
          THEN Arrive(i, d(np_gen(a.src.arr, a.dt, bs), 0))
          ELSE IF a.src.kind = "bytes"
          THEN Arrive(i, d(raw_gen(a.src.data, a.dt, bs), 0))
          ELSE Arrive(i, d(a.src.items, a.src.failAt))
       /\ UNCHANGED <<chan, log, gen, count, raw, waits, result, fn>>

\* play(src, repeat, preload, **kw) is invoked: lines 35-49 up to the first
\* suspension (the executor for a file source, the lock otherwise).  Calls
\* are numbered in the order of their invocation.
Call(i, a) ==
    LET bs == TruncDiv(a.bd * a.sr, 1000)
        d(items, failAt) ==
            [sr |-> a.sr, dt |-> a.dt, bs |-> bs, src |-> Source(items, failAt)]
    IN /\ pc[i] = "idle"
       /\ i = Len(order) + 1
       /\ arg' = [arg EXCEPT ![i] = a]
       /\ order' = Append(order, i)
       /\ IF a.src.kind \in FileKinds
          THEN /\ pc' = [pc EXCEPT ![i] = "decode"]
               /\ loc' = [loc EXCEPT ![i] = d(<<>>, 0)]
               /\ UNCHANGED <<lock, waiters, t_sr, t_dt, t_bs, result, arrived>>
          ELSE IF a.src.kind = "ndarray"
          THEN Arrive(i, d(np_gen(a.src.arr, a.dt, bs), 0)) /\ UNCHANGED result
          ELSE IF a.src.kind = "bytes"
          THEN Arrive(i, d(raw_gen(a.src.data, a.dt, bs), 0)) /\ UNCHANGED result
          ELSE IF a.src.kind = "iterable"
          THEN Arrive(i, d(a.src.items, a.src.failAt)) /\ UNCHANGED result
          ELSE /\ Raise(i, "TypeError")
               /\ UNCHANGED <<lock, waiters, t_sr, t_dt, t_bs, loc, arrived>>
       /\ UNCHANGED <<chan, log, gen, count, raw, waits, fn>>

\* The executor returns from file_sr_bs_gen (line 40); the call goes on to
\* the lock, or ends with the decoder's exception.
DecodeDone(i) ==
    /\ pc[i] = "decode"
    /\ \E r \in {file_sr_bs_gen(arg[i].src, loc[i].sr, loc[i].dt, arg[i].bd)} :
          IF r.exc = "none"
          THEN /\ Arrive(i, [sr |-> r.sr, dt |-> loc[i].dt, bs |-> r.bs,
                             src |-> Source(r.gen, 0)])
               /\ UNCHANGED result
          ELSE /\ Raise(i, r.exc)
               /\ UNCHANGED <<lock, waiters, t_sr, t_dt, t_bs, loc, arrived>>
    /\ UNCHANGED <<chan, log, arg, gen, count, raw, waits, order, fn, front>>

\* A waiter woken by release() resumes in acquire(): it takes the lock and
\* runs lines 51-53.
Granted(i) ==
    /\ pc[i] = "lock"
    /\ lock = 0
    /\ waiters # <<>>
    /\ Head(waiters) = i
    /\ lock' = i
    /\ waiters' = Tail(waiters)
    /\ t_sr' = loc[i].sr
    /\ t_dt' = loc[i].dt
    /\ t_bs' = loc[i].bs
    /\ pc' = [pc EXCEPT ![i] = "enter"]
    /\ UNCHANGED <<chan, log, arg, loc, gen, count, raw, waits, result, order, arrived, fn, front>>

\* `async with self:` is entered (line 54); then line 55 and the call of
\* repeat_gen (line 56).
Enter(i) ==
    /\ pc[i] = "enter"
    /\ aenter(i)
    /\ count' = [count EXCEPT ![i] = 0]
    /\ gen' = [gen EXCEPT ![i] = GenInit]
    /\ pc' = [pc EXCEPT ![i] = "next"]
    /\ UNCHANGED <<lock, waiters, t_sr, t_dt, t_bs, arg, loc, raw, waits,
                   result, order, arrived, fn, front>>

\* Leave without the `async with` guarantees: channel and lock are given
\* back only when the loop ends normally.
Leave_leak(i, e) ==
    /\ IF chan.open /\ chan.by = i /\ e = "ok"
       THEN aexit(i)
       ELSE UNCHANGED <<chan, log>>
    /\ lock' = IF lock = i /\ e = "ok" THEN 0 ELSE lock
    /\ pc' = [pc EXCEPT ![i] = "done"]
    /\ result' = [result EXCEPT ![i] = e]

\* The two `async with` blocks are left by call i with outcome e: the
\* channel is closed if the call had entered it, then the lock is released
\* (release() leaves the waiters queued; the first is woken).
Leave(i, e) ==
    /\ IF chan.open /\ chan.by = i
       THEN aexit(i)
       ELSE UNCHANGED <<chan, log>>
    /\ lock' = IF lock = i THEN 0 ELSE lock
    /\ pc' = [pc EXCEPT ![i] = "done"]
    /\ result' = [result EXCEPT ![i] = e]

\* The for statement asks repeat_gen for its next block (line 56).
Pull(i) ==
    LET r == repeat_next(loc[i].src, arg[i].repeat, gen[i])
    IN /\ pc[i] = "next"
       /\ IF r.kind = "item"
          THEN /\ gen' = [gen EXCEPT ![i] = r.g]
               /\ raw' = [raw EXCEPT ![i] = r.item]
               /\ pc' = [pc EXCEPT ![i] = "put"]
               /\ UNCHANGED <<chan, log, lock, result>>
          ELSE /\ Leave(i, IF r.kind = "stop" THEN "ok" ELSE "SourceError")
               /\ UNCHANGED <<gen, raw>>
       /\ UNCHANGED <<waiters, t_sr, t_dt, t_bs, arg, loc, count, waits, order, arrived, fn, front>>

\* Pace counting blocks: count += 1 in place of count += bd.
Pace_blocks(i) ==
    IF count[i] < arg[i].preload * 1000
    THEN /\ count' = [count EXCEPT ![i] = @ + 1000]
         /\ waits' = [waits EXCEPT ![i] = Append(@, 0)]
         /\ pc' = [pc EXCEPT ![i] = "next"]
    ELSE /\ count' = count
         /\ waits' = [waits EXCEPT ![i] = Append(@, (arg[i].bd * 95) \div 100)]
         /\ pc' = [pc EXCEPT ![i] = "sleep"]

\* The pacing decision after a push (lines 58-61): the next state of
\* count[i], the wait recorded and the call's position.
Pace(i) ==
    IF count[i] < arg[i].preload * 1000
    THEN /\ count' = [count EXCEPT ![i] = @ + arg[i].bd]
         /\ waits' = [waits EXCEPT ![i] = Append(@, 0)]
         /\ pc' = [pc EXCEPT ![i] = "next"]
    ELSE /\ count' = count
         /\ waits' = [waits EXCEPT ![i] = Append(@, (arg[i].bd * 95) \div 100)]
         /\ pc' = [pc EXCEPT ![i] = "sleep"]

\* PutDone with the block put twice.
PutDone_dup(i) ==
    /\ pc[i] = "put"
    /\ log' = log \o <<(<<"push", i, raw[i]>>), (<<"push", i, raw[i]>>)>>
    /\ Pace(i)
    /\ UNCHANGED <<lock, waiters, t_sr, t_dt, t_bs, chan, arg, loc, gen, raw,
                   result, order, arrived, fn, front>>

\* `await self._input_stream.put(raw)` completes (line 57), then lines 58-61
\* up to the sleep.
PutDone(i) ==
    /\ pc[i] = "put"
    /\ log' = Append(log, <<"push", i, raw[i]>>)
    /\ Pace(i)
    /\ UNCHANGED <<lock, waiters, t_sr, t_dt, t_bs, chan, arg, loc, gen, raw,
                   result, order, arrived, fn, front>>

\* The put raises (the channel failed): the block is not delivered.
PutFail(i) ==
    /\ pc[i] = "put"
    /\ Leave(i, "PushError")
    /\ UNCHANGED <<waiters, t_sr, t_dt, t_bs, arg, loc, gen, count, raw, waits,
                   order, arrived, fn, front>>

\* `await asyncio.sleep(bd * .95)` completes (line 61).
Wake(i) ==
    /\ pc[i] = "sleep"
    /\ pc' = [pc EXCEPT ![i] = "next"]
    /\ UNCHANGED <<lock, waiters, t_sr, t_dt, t_bs, chan, log, arg, loc, gen,
                   count, raw, waits, result, order, arrived, fn, front>>

RECURSIVE Without(_, _)
Without(s, x) ==
    IF s = <<>> THEN <<>>
    ELSE IF Head(s) = x THEN Without(Tail(s), x)
    ELSE <<Head(s)>> \o Without(Tail(s), x)

\* The task running play is cancelled at one of its suspension points.
Cancel(i) ==
    /\ pc[i] \in {"decode", "lock", "enter", "put", "sleep"}
    /\ IF pc[i] \in {"decode", "lock"}
       THEN /\ Raise(i, "Cancelled")
            /\ waiters' = Without(waiters, i)
            /\ UNCHANGED <<lock, chan, log>>
       ELSE /\ Leave(i, "Cancelled")
            /\ UNCHANGED waiters
    /\ UNCHANGED <<t_sr, t_dt, t_bs, arg, loc, gen, count, raw, waits, order, arrived, fn, front>>

\* ---------------------------------------------------------------- inputs
SeqsUpTo(S, n) == UNION {[1..k -> S] : k \in 0..n}

\* A mono file at rate 2, a stereo file at rate 4 and a file no decoder
\* accepts.
FileMono   == [rate |-> 2, frames |-> <<<<1>>, <<2>>, <<3>>>>,
               sfOK |-> TRUE, rosaOK |-> TRUE]
FileStereo == [rate |-> 4, frames |-> <<<<10, 20>>, <<30, 50>>, <<-4, -8>>, <<100, 27>>>>,
               sfOK |-> TRUE, rosaOK |-> TRUE]
FileBad    == [rate |-> 2, frames |-> <<<<5>>>>,
               sfOK |-> FALSE, rosaOK |-> FALSE]

\* ------------------------------------------------- Speaker.say / beep
\* self.block_duration in milliseconds. The constructor sets .1 s (line 17);
\* here the attribute has been set to 1 ms, so that a block of a 16 kHz
\* rendering is 16 frames.
block_duration == 1

\* A text is the sequence of its code points; line 86 looks for one in
\* U+4E00..U+9FFF.
HasCJK(txt) == \E k \in DOMAIN txt : txt[k] >= 19968 /\ txt[k] <= 40959

\* ESpeakNG(): the settings of a new synthesizer (voice 'en', pitch 50).
ESpeakNG == [made |-> TRUE, voice |-> "en", pitch |-> 50]

\* self._esng.synth_wav(txt) run with settings cfg: a 22050 Hz mono 16-bit
\* WAV; one frame per character stands for the speech, its two bytes telling
\* the voice and the pitch it was made with.
synth_wav(txt, cfg) ==
    [framerate |-> 22050,
     frames |-> Flatten([k \in 1..Len(txt) |->
                   <<IF cfg.voice = "zh" THEN 2 ELSE 1, cfg.pitch>>])]

\* The request is the next one made.
NextReq(r) ==
    /\ rpc[r] = "idle"
    /\ \A q \in Reqs : q < r => rpc[q] # "idle"

\* `await self.play(...)` inside request r: play call i is invoked.
Plays(r, a) ==
    \E i \in Calls :
        /\ Call(i, a)
        /\ callof' = [callof EXCEPT ![r] = i]
        /\ rpc' = [rpc EXCEPT ![r] = "play"]

\* say(txt, repeat, **options) up to its first await (lines 83-90): the
\* synthesizer is made if absent, the voice is chosen from the text, the
\* options are written over it, all onto the shared synthesizer, and
\* synth_wav is handed to the executor. options holds "" / -1 for a
\* setting that is not given.
Say(r, txt, repeat, options) ==
    LET e0 == IF esng.made THEN esng ELSE ESpeakNG
        op == [voice |-> IF options.voice # "" THEN options.voice
                         ELSE IF HasCJK(txt) THEN "zh" ELSE "en",
               pitch |-> options.pitch]
    IN /\ NextReq(r)
       /\ esng' = [e0 EXCEPT !.voice = op.voice,
                             !.pitch = IF op.pitch # -1 THEN op.pitch ELSE @]
       /\ req' = [req EXCEPT ![r] = [op |-> "say", txt |-> txt,
                                     repeat |-> repeat, options |-> options]]
       /\ rpc' = [rpc EXCEPT ![r] = "synth"]
       /\ UNCHANGED <<session, fn, used, callof, rres>>

\* The executor's worker runs self._esng.synth_wav(txt) (line 90): it reads
\* the synthesizer's settings as they are when it gets to run.
Synth(r) ==
    /\ rpc[r] = "synth"
    /\ used' = [used EXCEPT ![r] = [voice |-> esng.voice, pitch |-> esng.pitch]]
    /\ rpc' = [rpc EXCEPT ![r] = "wav"]
    /\ UNCHANGED <<session, fn, esng, req, callof, rres>>

\* say resumes with the WAV and plays its frames (lines 91-92).
SayPlay(r) ==
    /\ rpc[r] = "wav"
    /\ \E f \in {synth_wav(req[r].txt, used[r])} :
       \E a \in {[src |-> BytesSrc(f.frames), repeat |-> req[r].repeat,
                  preload |-> 1, sr |-> f.framerate, dt |-> "int16",
                  bd |-> block_duration]} :
          Plays(r, a)
    /\ UNCHANGED <<esng, req, used, rres>>

\* beep without lines 112-113.
Beep_nocheck(r, tones, repeat, tempo, duty_cycle) ==
    /\ NextReq(r)
    /\ req' = [req EXCEPT ![r] = [op |-> "beep", tones |-> tones,
                                  repeat |-> repeat, tempo |-> tempo,
                                  duty_cycle |-> duty_cycle,
                                  sr |-> beep_sr(tones)]]
    /\ rpc' = [rpc EXCEPT ![r] = "render"]
    /\ UNCHANGED <<session, fn, esng, used, callof, rres>>

\* beep(tones, repeat, tempo, duty_cycle) up to its first await (lines
\* 112-122): the duty cycle (in hundredths) is checked, the rate chosen and
\* tone2audio handed to the executor.
Beep(r, tones, repeat, tempo, duty_cycle) ==
    /\ NextReq(r)
    /\ req' = [req EXCEPT ![r] = [op |-> "beep", tones |-> tones,
                                  repeat |-> repeat, tempo |-> tempo,
                                  duty_cycle |-> duty_cycle,
                                  sr |-> beep_sr(tones)]]
    /\ IF ~(0 < duty_cycle /\ duty_cycle <= 100)
       THEN /\ rpc' = [rpc EXCEPT ![r] = "done"]
            /\ rres' = [rres EXCEPT ![r] = "ValueError"]
       ELSE /\ rpc' = [rpc EXCEPT ![r] = "render"]
            /\ UNCHANGED rres
    /\ UNCHANGED <<session, fn, esng, used, callof>>

\* The frames of a duration of us microseconds at rate sr.
Frames(us, sr) == ((sr \div 50) * us) \div 20000

\* aud.raw_data: 16-bit mono frames; the samples of a sine are not
\* computed, a frame of tone or fade is the sample 1, of silence 0.
raw_data(parts, sr) ==
    Flatten([k \in 1..Len(parts) |->
        Flatten([n \in 1..Frames(parts[k].us, sr) |->
            SampleBytes(IF parts[k].kind = "silence" THEN 0 ELSE 1, "int16")])])

\* The worker has run tone2audio and beep resumes (lines 122-123): it ends
\* with the renderer's exception or plays the rendering.
RenderDone(r) ==
    /\ rpc[r] = "render"
    /\ \E q \in {req[r]} :
       \E aud \in {tone2audio(q.tones, 60000000 \div q.tempo, q.duty_cycle, q.sr)} :
          IF aud.exc # "none"
          THEN /\ rpc' = [rpc EXCEPT ![r] = "done"]
               /\ rres' = [rres EXCEPT ![r] = aud.exc]
               /\ UNCHANGED <<session, fn, callof>>
          ELSE /\ \E a \in {[src |-> BytesSrc(raw_data(aud.parts, q.sr)),
                              repeat |-> q.repeat, preload |-> 1, sr |-> q.sr,
                              dt |-> "int16", bd |-> block_duration]} :
                     Plays(r, a)
               /\ UNCHANGED rres
    /\ UNCHANGED <<esng, req, used>>

\* play(...) called by the user as request r.
Play(r, a) ==
    /\ NextReq(r)
    /\ req' = [req EXCEPT ![r] = [op |-> "play"]]
    /\ Plays(r, a)
    /\ UNCHANGED <<esng, used, rres>>

\* Request r has returned or raised.
Returned(r) ==
    \/ rpc[r] = "done"
    \/ rpc[r] = "play" /\ pc[callof[r]] = "done"

\* play(s, repeat=r, sample_rate=sr, dtype=dt, block_duration=1) with the
\* default preload.
PlayArgs(s, r, sr, dt) ==
    [src |-> s, repeat |-> r, preload |-> 1, sr |-> sr, dt |-> dt, bd |-> 1000]

\* The calls of the session specification: a source of every kind (a file
\* decoded by soundfile, a URL too fast for the hint, a file no decoder
\* accepts, a handle, a float array, bytes, an iterable that ends and one
\* that raises at its second block, an unsupported source), in two formats,
\* the iterable repeated 1..MaxRepeat times.
Args ==
    { PlayArgs(FileSrc("path", FileMono), 1, 4, "int16"),
      PlayArgs(FileSrc("url", FileStereo), 1, 2, "int8"),
      PlayArgs(FileSrc("path", FileBad), 1, 2, "int8"),
      PlayArgs(FileSrc("handle", FileMono), 1, 4, "int16"),
      PlayArgs(ArraySrc([dtype |-> "float32", ndim |-> 1,
                         data |-> <<500, -250, 1000>>]), 1, 4, "int16"),
      PlayArgs(IterSrc(<<<<7>>, <<8>>>>, 2), 1, 2, "int8"),
      PlayArgs(BytesSrc(<<1, 2, 3>>), 1, 2, "int8"),
      PlayArgs(OtherSrc, 1, 2, "int8") }
    \cup { PlayArgs(IterSrc(<<<<7>>>>, 0), r, 4, "int16") : r \in 1..MaxRepeat }

\* The calls of the ordering specification, one block each: a file (decoded
\* in the executor before the lock), bytes (normalized at the invocation,
\* as an array is) and an iterable.
OrderSources ==
    { FileSrc("path", [FileMono EXCEPT !.frames = <<<<1>>>>]),
      BytesSrc(<<1, 2>>),
      IterSrc(<<<<7>>>>, 0) }

\* Only the iterable is played without preload, so that its push is paced.
OrderArgs ==
    { [src |-> s, repeat |-> 1, preload |-> IF s.kind = "iterable" THEN 0 ELSE 1,
       sr |-> 2, dt |-> "int8", bd |-> 1000] :
        s \in OrderSources }

\* ------------------------------------------------------- specification
Next ==
    \/ \E i \in 1..NSession, a \in Args : Call(i, a) /\ UNCHANGED front
    \/ \E i \in Calls : DecodeDone(i)
    \/ \E i \in Calls : Granted(i)
    \/ \E i \in Calls : Enter(i)
    \/ \E i \in Calls : Pull(i)
    \/ \E i \in Calls : PutDone(i)
    \/ \E i \in Calls : PutFail(i)
    \/ \E i \in Calls : Wake(i)
    \/ \E i \in Calls : Cancel(i)

Spec == Init /\ [][Next]_vars

\* The ordering specification: NCalls calls, all the same steps.
NextOrder ==
    \/ \E i \in Calls, a \in OrderArgs : Call(i, a) /\ UNCHANGED front
    \/ \E i \in Calls : DecodeDone(i)
    \/ \E i \in Calls : Granted(i)
    \/ \E i \in Calls : Enter(i)
    \/ \E i \in Calls : Pull(i)
    \/ \E i \in Calls : PutDone(i)
    \/ \E i \in Calls : PutFail(i)
    \/ \E i \in Calls : Wake(i)
    \/ \E i \in Calls : Cancel(i)

SpecOrder == Init /\ [][NextOrder]_vars

\* The pacing specification: one call, sources of 0..MaxLen blocks, every
\* preload and block duration drawn.
BlockDurations == {500, 1000, 2000}

PaceArgs ==
    { [src |-> IterSrc([k \in 1..n |-> <<k>>], 0), repeat |-> r, preload |-> p,
       sr |-> 2, dt |-> "int8", bd |-> bd] :
        n \in 0..MaxLen, r \in 1..MaxRepeat, p \in 0..MaxPreload,
        bd \in BlockDurations }

NextPace ==
    \/ \E a \in PaceArgs : Call(1, a) /\ UNCHANGED front
    \/ Enter(1)
    \/ Pull(1)
    \/ PutDone(1)
    \/ PutFail(1)
    \/ Wake(1)
    \/ Cancel(1)

SpecPace == Init /\ [][NextPace]_vars

\* The requests specification: NReq requests made in any of the three
\* ways, concurrently; no cancellation, the channel accepts every push.
Hello == <<104, 105>>
NiHao == <<20320, 22909>>

Texts == {Hello, NiHao}

SayOptions == {NoSettings, [voice |-> "", pitch |-> 80]}

\* A beat of 1 ms (tempo 60000) or 2 ms; duty cycles outside (0, 1], at 1,
\* at .5, and below .5.
BeepArgs ==
    {[tempo |-> 60000, duty_cycle |-> d] : d \in {0, 100, 150}}
    \cup {[tempo |-> 30000, duty_cycle |-> d] : d \in {50, 40}}

FrontArgs ==
    {[src |-> IterSrc(<<<<7>>, <<8>>>>, 0), repeat |-> 1, preload |-> 0,
      sr |-> 2, dt |-> "int8", bd |-> 1000],
     PlayArgs(FileSrc("path", [FileMono EXCEPT !.frames = <<<<1>>>>]), 1, 2, "int8")}

NextFront ==
    \/ \E r \in Reqs, txt \in Texts, o \in SayOptions : Say(r, txt, 1, o)
    \/ \E r \in Reqs : Synth(r)
    \/ \E r \in Reqs : SayPlay(r)
    \/ \E r \in Reqs, b \in BeepArgs :
          Beep(r, <<Leaf(500)>>, 1, b.tempo, b.duty_cycle)
    \/ \E r \in Reqs : RenderDone(r)
    \/ \E r \in Reqs, a \in FrontArgs : Play(r, a)
    \/ \E i \in Calls : DecodeDone(i)
    \/ \E i \in Calls : Granted(i)
    \/ \E i \in Calls : Enter(i)
    \/ \E i \in Calls : Pull(i)
    \/ \E i \in Calls : PutDone(i)
    \/ \E i \in Calls : Wake(i)

SpecFront == Init /\ [][NextFront]_vars

\* The requests under fair scheduling. The steps that are not the user's: a
\* callback of the event loop that is ready, a timer that fires, a job the
\* executor ends, a block the channel takes. While one of them can be
\* taken, one is taken; whether a request is made at all is left to the
\* user.
Scheduled ==
    \/ \E r \in Reqs : Synth(r) \/ SayPlay(r) \/ RenderDone(r)
    \/ \E i \in Calls :
          \/ DecodeDone(i)
          \/ Granted(i)
          \/ Enter(i)
          \/ Pull(i)
          \/ PutDone(i)
          \/ Wake(i)

Fairness == WF_vars(Scheduled)

\* One request of each kind: a say, a beep that renders, a play of a file
\* and a play of an iterable that is paced.
NextLive ==
    \/ \E r \in Reqs : Say(r, Hello, 1, NoSettings)
    \/ \E r \in Reqs : Synth(r)
    \/ \E r \in Reqs : SayPlay(r)
    \/ \E r \in Reqs : Beep(r, <<Leaf(500)>>, 1, 60000, 100)
    \/ \E r \in Reqs : RenderDone(r)
    \/ \E r \in Reqs, a \in FrontArgs : Play(r, a)
    \/ \E i \in Calls : DecodeDone(i)
    \/ \E i \in Calls : Granted(i)
    \/ \E i \in Calls : Enter(i)
    \/ \E i \in Calls : Pull(i)
    \/ \E i \in Calls : PutDone(i)
    \/ \E i \in Calls : Wake(i)

SpecLive == Init /\ [][NextLive]_vars /\ Fairness

\* The generators alone: one of them is applied once to an input drawn
\* from the bounded sets, and input and output are recorded in fn.
Bytes  == {0, 1, 255}
Blocks == {<<0>>, <<1>>}
DTypes == IntTypes \cup FloatTypes

FrameSets == {<<>>, <<<<1>>, <<2>>, <<3>>>>, <<<<10, 20>>, <<30, 50>>>>}

Files ==
    { [rate |-> r, frames |-> f, sfOK |-> a, rosaOK |-> b] :
        r \in 1..MaxRate, f \in FrameSets, a \in BOOLEAN, b \in BOOLEAN }

HintRates == {2, 3}

ApplyRawGen(data, dt, bs) ==
    /\ fn.op = "none"
    /\ fn' = [op |-> "raw_gen", data |-> data, dt |-> dt, bs |-> bs,
              out |-> raw_gen(data, dt, bs)]
    /\ UNCHANGED <<session, front>>

ApplyRepeatGen(seq, n) ==
    /\ fn.op = "none"
    /\ fn' = [op |-> "repeat_gen", seq |-> seq, n |-> n,
              out |-> repeat_gen(seq, n)]
    /\ UNCHANGED <<session, front>>

ApplyFileGen(src, sr, dt, bd) ==
    /\ fn.op = "none"
    /\ fn' = [op |-> "file_sr_bs_gen", src |-> src, sr |-> sr, dt |-> dt,
              bd |-> bd, out |-> file_sr_bs_gen(src, sr, dt, bd)]
    /\ UNCHANGED <<session, front>>

\* Sample arrays: float samples in thousandths, integer samples as they are;
\* one-dimensional, or rows of two channels.
SampleValues(dtype) == IF IsFloat(dtype) THEN {500, -250} ELSE {100, -3}

NpRows(dtype) == {<<a, b>> : a \in SampleValues(dtype), b \in SampleValues(dtype)}

NpArrays1 ==
    UNION { { [dtype |-> d, ndim |-> 1, data |-> x] :
                 x \in SeqsUpTo(SampleValues(d), 2) } :
            d \in IntTypes \cup FloatTypes }

NpArrays2 ==
    UNION { { [dtype |-> d, ndim |-> 2, data |-> x] :
                 x \in SeqsUpTo(NpRows(d), 2) \ {<<>>} } :
            d \in IntTypes \cup FloatTypes }

ApplyNpGen(arr, dt, bs) ==
    /\ fn.op = "none"
    /\ fn' = [op |-> "np_gen", arr |-> arr, dt |-> dt, bs |-> bs,
              out |-> np_gen(arr, dt, bs)]
    /\ UNCHANGED <<session, front>>

\* Phrases: flat ones over every frequency next to a threshold, nested ones
\* (one and two levels deep) over the three example frequencies.
ToneFreqs == {500, 800, 801, 5000, 8000, 11025, 11026, 15000}

NestFreqs == {500, 5000, 15000}

FlatPhrases ==
    {<<>>} \cup {<<Leaf(f)>> : f \in ToneFreqs}
           \cup {<<Leaf(f), Leaf(g)>> : f \in ToneFreqs, g \in ToneFreqs}

NestedPhrases ==
    {<<Leaf(f), Node(<<Leaf(g), Leaf(h)>>)>> :
        f \in NestFreqs, g \in NestFreqs, h \in NestFreqs}

DeepPhrases ==
    {<<Node(<<Node(<<Leaf(f)>>), Leaf(g)>>)>> :
        f \in NestFreqs, g \in NestFreqs}

Phrases == FlatPhrases \cup NestedPhrases \cup DeepPhrases

\* Renderings: every duration they lead to is a whole number of
\* milliseconds, so pydub's rounding of len() does not come into play.
Tempos == {60, 120}

Renderings ==
    {<<t, d>> : t \in FlatPhrases \cup NestedPhrases, d \in {100, 90, 50, 40}}
    \cup {<<t, d>> : t \in DeepPhrases, d \in {100, 80, 40}}

ApplyBeepSr(tones) ==
    /\ fn.op = "none"
    /\ fn' = [op |-> "beep_sr", tones |-> tones, max |-> max_freq(tones),
              out |-> beep_sr(tones)]
    /\ UNCHANGED <<session, front>>

\* Line 122: tone2audio(tones, 60000.0/tempo, duty_cycle, sr).
ApplyTone2Audio(tones, tempo, duty_cycle) ==
    /\ fn.op = "none"
    /\ fn' = [op |-> "tone2audio", tones |-> tones,
              base |-> 60000000 \div tempo, duty_cycle |-> duty_cycle,
              out |-> tone2audio(tones, 60000000 \div tempo, duty_cycle,
                                 beep_sr(tones))]
    /\ UNCHANGED <<session, front>>

NextFn ==
    \/ \E r \in Renderings, tempo \in Tempos : ApplyTone2Audio(r[1], tempo, r[2])
    \/ \E tones \in Phrases : ApplyBeepSr(tones)
    \/ \E arr \in NpArrays1, dt \in IntTypes \cup FloatTypes, bs \in 1..MaxBs :
          ApplyNpGen(arr, dt, bs)
    \/ \E arr \in NpArrays2, dt \in IntTypes \cup FloatTypes, bs \in 1..MaxBs :
          ApplyNpGen(arr, dt, bs)
    \/ \E data \in SeqsUpTo(Bytes, MaxLen), dt \in DTypes, bs \in 1..MaxBs :
          ApplyRawGen(data, dt, bs)
    \/ \E seq \in SeqsUpTo(Blocks, MaxLen), n \in 1..MaxTimes :
          ApplyRepeatGen(seq, n)
    \/ \E k \in {"path", "url"}, f \in Files, sr \in HintRates, dt \in IntTypes :
          ApplyFileGen(FileSrc(k, f), sr, dt, 1000)

SpecFn == Init /\ [][NextFn]_vars

\* ============================================================== claims
Streaming == {"next", "put", "sleep"}

Elems(s) == {s[k] : k \in DOMAIN s}

\* Position of x in the sequence s (x occurs in s).
Pos(s, x) == CHOOSE k \in DOMAIN s : s[k] = x

Pushes(i) == {k \in DOMAIN log : log[k][1] = "push" /\ log[k][2] = i}

\* C1: at most one call is inside the session at any time, and the output
\* channel sees whole sessions one after the other: every push and every
\* close directly follows an open or a push of the same call, and every
\* open directly follows a close (or is the first event).
C1_Serialized ==
    /\ Cardinality({i \in Calls : pc[i] \in Streaming \cup {"enter"}}) <= 1
    /\ \A b \in DOMAIN log :
          IF log[b][1] = "open"
          THEN b = 1 \/ log[b - 1][1] = "close"
          ELSE /\ b > 1
               /\ log[b - 1][2] = log[b][2]
               /\ log[b - 1][1] \in {"open", "push"}

\* A call has pushed a block and is still streaming while another call
\* waits for the lock.
C1_Witness ==
    \E i, j \in Calls :
        /\ i # j
        /\ pc[i] \in Streaming
        /\ Pushes(i) # {}
        /\ pc[j] = "lock"

\* C2: a play call that has ended holds neither the lock nor a place among
\* its waiters nor an open channel, and the channel is open only while the
\* call that opened it holds the lock.
C2_Released ==
    /\ \A i \in Calls :
          pc[i] = "done" =>
              /\ lock # i
              /\ i \notin Elems(waiters)
              /\ ~(chan.open /\ chan.by = i)
    /\ chan.open => lock = chan.by

\* Two calls opened the channel; one was cancelled in mid-stream and the
\* other ended with an error of its source or of a push.
C2_Witness ==
    \E i, j \in Calls :
        /\ i # j
        /\ pc[i] = "done" /\ pc[j] = "done"
        /\ result[i] = "Cancelled"
        /\ result[j] \in {"SourceError", "PushError"}
        /\ \E a, b \in DOMAIN log :
              /\ log[a] = <<"close", i, <<>>>>
              /\ log[b] = <<"close", j, <<>>>>

\* C4 as stated: blocks reach the channel in the order in which their calls
\* were invoked.
C4_InvocationOrder ==
    \A a, b \in DOMAIN log :
        (a < b /\ log[a][1] = "push" /\ log[b][1] = "push")
            => Pos(order, log[a][2]) <= Pos(order, log[b][2])

\* C4 amended: blocks reach the channel in the order in which their calls
\* reached the lock statement, which is the order of invocation for two
\* calls whose sources are not decoded in the executor.
C4_ArrivalOrder ==
    \A a, b \in DOMAIN log :
        (a < b /\ log[a][1] = "push" /\ log[b][1] = "push")
            => /\ Pos(arrived, log[a][2]) <= Pos(arrived, log[b][2])
               /\ (arg[log[a][2]].src.kind \notin FileKinds
                     /\ arg[log[b][2]].src.kind \notin FileKinds)
                    => Pos(order, log[a][2]) <= Pos(order, log[b][2])

\* Three calls have pushed blocks, and a call invoked first pushed after a
\* call invoked later.
C4_Witness ==
    /\ Cardinality({i \in Calls : Pushes(i) # {}}) = 3
    /\ \E a, b \in DOMAIN log :
          /\ a < b
          /\ log[a][1] = "push" /\ log[b][1] = "push"
          /\ log[a][2] > log[b][2]

\* C7: whenever the channel is open it was opened with the sample rate,
\* dtype and block size of the call that opened it, the descriptor
\* (_t_sr, _t_dt, _t_bs) holds those same values, and no step taken while
\* the channel stays open changes the descriptor.
C7_Descriptor ==
    [][ /\ chan'.open =>
              /\ chan'.sr = loc'[chan'.by].sr
              /\ chan'.dt = loc'[chan'.by].dt
              /\ chan'.bs = loc'[chan'.by].bs
              /\ <<t_sr', t_dt', t_bs'>> = <<chan'.sr, chan'.dt, chan'.bs>>
        /\ (chan.open /\ chan'.open) => UNCHANGED <<t_sr, t_dt, t_bs>>
      ]_vars

\* The channel is open while another call, issued with another sample rate
\* and dtype, waits for the lock.
C7_Witness ==
    /\ chan.open
    /\ \E j \in Calls :
          /\ pc[j] = "lock"
          /\ loc[j].sr # chan.sr
          /\ loc[j].dt # chan.dt

\* C9: a call whose source is of no supported kind ends with TypeError at
\* its invocation, a step that changes neither the lock, its waiters, the
\* descriptor nor the channel, and the call never appears among the lock's
\* arrivals or in the channel's log.
C9_Unsupported ==
    [][ \A i \in Calls :
          (arg'[i].src.kind = "other" /\ pc'[i] # "idle") =>
              /\ pc'[i] = "done"
              /\ result'[i] = "TypeError"
              /\ lock' # i
              /\ i \notin Elems(arrived')
              /\ \A k \in DOMAIN log' : log'[k][2] # i
              /\ pc[i] = "idle" =>
                    UNCHANGED <<lock, waiters, t_sr, t_dt, t_bs, chan, log>>
      ]_vars

\* A call with an unsupported source has failed while another call streams.
C9_Witness ==
    \E i, j \in Calls :
        /\ arg[i].src.kind = "other"
        /\ result[i] = "TypeError"
        /\ pc[j] \in Streaming

\* C10: a call given a byte-stream handle of a file the primary decoder
\* accepts does not fail in dispatch: it ends normally, or by a failing
\* push, or cancelled.
C10_HandleDecoded ==
    \A i \in Calls :
        ( /\ arg[i].src.kind = "handle"
          /\ arg[i].src.file.sfOK
          /\ arg[i].src.file.rate <= arg[i].sr
          /\ pc[i] = "done" )
            => result[i] \in {"ok", "PushError", "Cancelled"}

\* C3 as stated: the first `preload` pushes of a call are followed by no
\* wait, every later push by a wait of 0.95 x block_duration.
C3_PreloadBlocks ==
    \A i \in Calls : \A k \in DOMAIN waits[i] :
        waits[i][k] = IF k <= arg[i].preload THEN 0
                      ELSE (95 * arg[i].bd) \div 100

\* C3 amended: push k of a call is followed by no wait exactly when the
\* k - 1 pushes before it carry less than `preload` seconds of audio, and
\* by a wait of 0.95 x block_duration otherwise; the call is suspended in
\* that wait before it asks for the next block.
C3_PreloadSeconds ==
    \A i \in Calls :
        /\ \A k \in DOMAIN waits[i] :
              waits[i][k] = IF (k - 1) * arg[i].bd < arg[i].preload * 1000 THEN 0
                            ELSE (95 * arg[i].bd) \div 100
        /\ pc[i] = "sleep" => (waits[i] # <<>> /\ waits[i][Len(waits[i])] > 0)
        /\ Len(waits[i]) = Cardinality(Pushes(i))

\* A call with preload 1 and half-second blocks has pushed two blocks back
\* to back and sleeps after the third.
C3_Witness ==
    /\ arg[1].preload = 1
    /\ arg[1].bd = 500
    /\ waits[1] = <<0, 0, 475>>
    /\ pc[1] = "sleep"

\* C5: raw_gen yields ceil(len / (bs * w)) blocks of bs * w bytes each,
\* whose concatenation is the input followed by zero bytes up to the block
\* boundary; an empty input yields no block.
C5_RawGen ==
    fn.op = "raw_gen" =>
        LET w == fn.bs * sample_width(fn.dt)
            n == Len(fn.data)
            m == (n + w - 1) \div w
        IN /\ Len(fn.out) = m
           /\ \A k \in 1..Len(fn.out) : Len(fn.out[k]) = w
           /\ Flatten(fn.out) = fn.data \o [k \in 1..(m * w - n) |-> 0]
           /\ n = 0 => fn.out = <<>>

\* raw_gen has cut a buffer into two or more blocks, the last one padded.
C5_Witness ==
    /\ fn.op = "raw_gen"
    /\ Len(fn.out) >= 2
    /\ Len(fn.data) % (fn.bs * sample_width(fn.dt)) # 0
    /\ fn.data[Len(fn.data)] # 0

\* C6: repeat_gen(seq, n) yields n * len(seq) blocks, block k being block
\* ((k - 1) mod len(seq)) + 1 of seq.
C6_RepeatGen ==
    fn.op = "repeat_gen" =>
        /\ Len(fn.out) = fn.n * Len(fn.seq)
        /\ \A k \in 1..Len(fn.out) :
              fn.out[k] = fn.seq[((k - 1) % Len(fn.seq)) + 1]

\* repeat_gen has repeated a sequence of differing blocks three times.
C6_Witness ==
    /\ fn.op = "repeat_gen"
    /\ fn.n = 3
    /\ Len(fn.seq) >= 2
    /\ fn.seq[1] # fn.seq[2]
    /\ Len(fn.out) = 3 * Len(fn.seq)

\* C8: for a file or URL with native rate r and hint h, a successful
\* file_sr_bs_gen returns rate r when r <= h and h when r > h; librosa is
\* tried exactly when soundfile rejects the file or r > h, after soundfile
\* and once.
C8_FileRate ==
    fn.op = "file_sr_bs_gen" =>
        LET r == fn.src.file.rate
            h == fn.sr
            t == fn.out.tried
            fb == {k \in DOMAIN t : t[k] = "librosa"}
        IN /\ fn.out.exc = "none" =>
                 /\ fn.out.sr <= h
                 /\ fn.out.sr = IF r <= h THEN r ELSE h
           /\ t[1] = "soundfile"
           /\ Cardinality(fb) <= 1
           /\ (fb # {}) <=> (~fn.src.file.sfOK \/ r > h)

\* A file soundfile accepts, faster than the hint, came back at the hint
\* rate through librosa.
C8_Witness ==
    /\ fn.op = "file_sr_bs_gen"
    /\ fn.src.file.sfOK
    /\ fn.src.file.rate > fn.sr
    /\ fn.out.exc = "none"
    /\ fn.out.sr = fn.sr
    /\ fn.out.tried = <<"soundfile", "librosa">>
    /\ fn.out.gen # <<>>

\* The blocks call i has pushed, in the order the channel saw them.
IsPushOf(i, e) == e[1] = "push" /\ e[2] = i

PushSeq(i) ==
    LET ps == SelectSeq(log, LAMBDA e : IsPushOf(i, e))
    IN [k \in 1..Len(ps) |-> ps[k][3]]

\* The blocks call i's normalized source yields, `repeat` times over.
Produced(i) ==
    LET items == loc[i].src.items
    IN [k \in 1..(arg[i].repeat * Len(items)) |->
           items[((k - 1) % Len(items)) + 1]]

IsPrefix(s, t) ==
    /\ Len(s) <= Len(t)
    /\ \A k \in 1..Len(s) : s[k] = t[k]

\* C15: at every state the blocks a call has pushed are a prefix of the
\* sequence its source produces (each block whole, once per repetition, in
\* order), whether the call is running, cancelled or failed; a call that
\* ended normally has pushed the whole sequence.
C15_Fifo ==
    \A i \in Calls :
        /\ IsPrefix(PushSeq(i), Produced(i))
        /\ (pc[i] = "done" /\ result[i] = "ok") => PushSeq(i) = Produced(i)

\* A call repeating a sequence of three or more blocks was cancelled in its
\* second repetition.
C15_Witness ==
    /\ arg[1].repeat = 2
    /\ Len(loc[1].src.items) >= 3
    /\ result[1] = "Cancelled"
    /\ Len(PushSeq(1)) > Len(loc[1].src.items) + 1

\* C17: a call pulls each upstream block at most once, all of them by the
\* time it ends normally; block k is pushed before block k+1 is pulled, so
\* at most the one block being put (or whose put failed or was cancelled) is
\* pulled and not pushed; with repeat = 1 nothing is buffered, with
\* repeat > 1 the buffer is exactly the blocks pulled so far.
C17_Lazy ==
    \A i \in Calls :
        LET items == loc[i].src.items
        IN /\ gen[i].up <= Len(items)
           /\ (pc[i] = "done" /\ result[i] = "ok") => gen[i].up = Len(items)
           /\ gen[i].up <= Len(PushSeq(i)) + 1
           /\ pc[i] \in {"next", "sleep"} => gen[i].up <= Len(PushSeq(i))
           /\ arg[i].repeat = 1 => gen[i].buf = <<>>
           /\ arg[i].repeat > 1 => gen[i].buf = SubSeq(items, 1, gen[i].up)

\* A call is putting a block of its second repetition: every block of a
\* source of three or more was pulled once and comes from the buffer.
C17_Witness ==
    /\ arg[1].repeat = 2
    /\ pc[1] = "put"
    /\ gen[1].view = 2
    /\ gen[1].up = Len(loc[1].src.items)
    /\ gen[1].up >= 3
    /\ Len(PushSeq(1)) > gen[1].up

\* The first channel of a multi-channel array, as a one-dimensional array.
FirstChannel(arr) ==
    [dtype |-> arr.dtype, ndim |-> 1,
     data  |-> [k \in 1..Len(arr.data) |-> arr.data[k][1]]]

SameChannels(arr) ==
    \A k \in 1..Len(arr.data) : \A c \in 1..Len(arr.data[k]) :
        arr.data[k][c] = arr.data[k][1]

\* C16: the conversion np_gen applies does not depend on the number of
\* channels: a multi-channel array whose channels are all equal (its
\* down-mix is that channel) is converted, scaling included, to the same
\* blocks as the one-dimensional array of that channel.
C16_ScaleAfterMix ==
    (fn.op = "np_gen" /\ fn.arr.ndim > 1 /\ SameChannels(fn.arr)) =>
        fn.out = np_gen(FirstChannel(fn.arr), fn.dt, fn.bs)

\* The pitches of a phrase, at every depth.
RECURSIVE LeafFreqs(_)
LeafFreqs(tones) ==
    UNION { IF tones[k].leaf THEN {tones[k].freq} ELSE LeafFreqs(tones[k].sub) :
            k \in DOMAIN tones }

\* The highest pitch of a phrase, 0 for a phrase without pitches.
MaxLeaf(tones) ==
    LET fs == LeafFreqs(tones) \cup {0}
    IN CHOOSE f \in fs : \A g \in fs : g <= f

Ladder == {16000, 22050, 44100}

\* C12: beep renders at the smallest rate of the ladder that exceeds twice
\* the phrase's highest frequency, and at 44100 when none does.
C12_Nyquist ==
    fn.op = "beep_sr" =>
        LET f  == MaxLeaf(fn.tones)
            ok == {r \in Ladder : r > 2 * f}
        IN fn.out = IF ok = {} THEN 44100
                    ELSE CHOOSE r \in ok : \A q \in ok : r <= q

\* C13: the maximum is the highest pitch at any depth; the rate is on the
\* ladder, depends on that maximum only and never decreases when it grows;
\* 500 Hz gives 16000, 5000 Hz gives 22050 and 15000 Hz gives 44100.
C13_Tiers ==
    fn.op = "beep_sr" =>
        /\ fn.max = MaxLeaf(fn.tones)
        /\ fn.out \in Ladder
        /\ \A q \in Phrases :
              /\ MaxLeaf(q) <= fn.max => beep_sr(q) <= fn.out
              /\ MaxLeaf(q) = fn.max => beep_sr(q) = fn.out
        /\ fn.max = 500 => fn.out = 16000
        /\ fn.max = 5000 => fn.out = 22050
        /\ fn.max = 15000 => fn.out = 44100

\* beep has chosen 44100 for a phrase whose only pitch above 11025 Hz is
\* two levels down.
C13_Witness ==
    /\ fn.op = "beep_sr"
    /\ fn.out = 44100
    /\ Len(fn.tones) = 1
    /\ ~fn.tones[1].leaf
    /\ ~fn.tones[1].sub[1].leaf
    /\ fn.tones[1].sub[1].sub[1].freq = 15000
    /\ fn.tones[1].sub[2].freq = 500

\* The sum of base_beat / 2^d over the leaves of a phrase, d being the
\* leaf's nesting depth.
RECURSIVE BeatSum(_, _)
BeatSum(tones, base_beat) ==
    IF tones = <<>> THEN 0
    ELSE LET e == Head(tones)
         IN (IF e.leaf THEN base_beat ELSE BeatSum(e.sub, base_beat \div 2))
            + BeatSum(Tail(tones), base_beat)

\* C14: for every duty_cycle in (0, 1] the phrase is rendered and, each leaf
\* of beat b giving b * duty_cycle of sound and b * (1 - duty_cycle) of gap,
\* the rendering lasts the sum of the leaves' beats: [A4, [B4, C5]] at a
\* beat of 500 ms lasts 1000 ms.
C14_Durations ==
    fn.op = "tone2audio" =>
        /\ fn.out.exc = "none"
        /\ SegLen(fn.out.parts) = BeatSum(fn.tones, fn.base)

BadDuty(d) == ~(0 < d /\ d <= 100)

\* C11: a beep whose duty_cycle is outside (0, 1] ends with ValueError at
\* its invocation, with nothing handed to the renderer, no play call made
\* and lock, channel and log as they were, and it stays so; a beep whose
\* duty_cycle is inside (0, 1] passes the check and goes on to render.
C11_DutyCycle ==
    [][\A r \in Reqs :
          req'[r].op = "beep" =>
              IF BadDuty(req'[r].duty_cycle)
              THEN /\ rpc'[r] = "done"
                   /\ rres'[r] = "ValueError"
                   /\ callof'[r] = 0
                   /\ rpc[r] = "idle" => UNCHANGED session
              ELSE rpc[r] = "idle" => rpc'[r] = "render"]_vars

\* A beep with duty_cycle 1.5 has failed and the next beep, with duty_cycle
\* 1, has pushed its block.
C11_Witness ==
    /\ req[1].op = "beep"
    /\ req[1].duty_cycle = 150
    /\ rres[1] = "ValueError"
    /\ req[2].op = "beep"
    /\ req[2].duty_cycle = 100
    /\ rpc[2] = "play"
    /\ PushSeq(callof[2]) # <<>>

\* The voice a say request selected: the one it was given, else the one
\* chosen from its text.
OwnVoice(r) ==
    IF req[r].options.voice # "" THEN req[r].options.voice
    ELSE IF HasCJK(req[r].txt) THEN "zh" ELSE "en"

Synthesized(r) == req[r].op = "say" /\ rpc[r] \in {"wav", "play"}

\* C18: every say request is synthesized with the voice it selected and with
\* the pitch it was given, whatever other say requests run concurrently.
C18_OwnSettings ==
    \A r \in Reqs :
        Synthesized(r) =>
            /\ used[r].voice = OwnVoice(r)
            /\ req[r].options.pitch # -1 => used[r].pitch = req[r].options.pitch

\* C19: a say request given no options, synthesized while no other say
\* request is between its configuration step and its synthesis, is
\* synthesized with the synthesizer's default pitch.
C19_OptionsLocal ==
    [][\A r \in Reqs :
          ( /\ req[r].op = "say"
            /\ rpc[r] = "synth"
            /\ rpc'[r] = "wav"
            /\ req[r].options = NoSettings
            /\ \A q \in Reqs \ {r} :
                  /\ rpc[q] # "synth"
                  /\ q > r => rpc[q] = "idle" )
          => used'[r].pitch = ESpeakNG.pitch]_vars

\* Every request made has returned, every play call invoked has ended, the
\* lock is free and nobody waits for it.
Quiet ==
    /\ \A r \in Reqs : rpc[r] # "idle" => Returned(r)
    /\ \A i \in Calls : pc[i] # "idle" => pc[i] = "done"
    /\ lock = 0
    /\ waiters = <<>>

\* C20: under fair scheduling the speaker comes to rest with every say, beep
\* and play that was called finished and the lock released (a call never
\* goes back to idle, so each call made ends); a call waiting for the lock
\* stops waiting only by acquiring it, so every waiter acquires it; a say or
\* beep that has not yet reached play has made no play call and holds no
\* lock.
C20_Live ==
    /\ <>[]Quiet
    /\ [][\A i \in Calls : (pc[i] = "lock" /\ pc'[i] # "lock") => lock' = i]_vars
    /\ [](\A r \in Reqs : rpc[r] \in {"synth", "wav", "render"} => callof[r] = 0)

\* The play call of a beep waits for the lock held by the play call of a
\* say.
C20_Witness ==
    /\ req[1].op = "say"
    /\ req[2].op = "beep"
    /\ rpc[1] = "play"
    /\ rpc[2] = "play"
    /\ lock = callof[1]
    /\ pc[callof[2]] = "lock"
    /\ waiters = <<callof[2]>>

====
